---- MODULE Spec2Model ----
(***************************************************************************)
(* Wallet tracker backend: the request handler of the server               *)
(* (handleRequest), the registry of networks (CHAIN_INFO) and the source   *)
(* adapters it calls, as a state machine over in-flight requests.          *)
(*                                                                         *)
(* JavaScript values.  A number-or-absent value is a record: Null (null or *)
(* undefined), NaN, or Num(n).  Amounts are written in tenths of a unit    *)
(* (Num(5) is 0.5 ETH, Num(10000) is 1000.0 USD); prices are whole USD, so *)
(* balance * price is again in tenths.  An absent string is Undefined.     *)
(***************************************************************************)
EXTENDS Integers, Sequences, FiniteSets, TLC

\* Largest number of items in one provider payload.
MaxItems == 2

Undefined == "<undefined>"
Null == [t |-> "null"]
NaN == [t |-> "nan"]
Num(n) == [t |-> "num", v |-> n]

IsNull(x) == x.t = "null"
IsNaN(x) == x.t = "nan"
IsNum(x) == x.t = "num"

\* a * b on JavaScript numbers (neither operand null at the call sites)
Mul(a, b) == IF IsNum(a) /\ IsNum(b) THEN Num(a.v * b.v) ELSE NaN
\* a + b on JavaScript numbers
Add(a, b) == IF IsNum(a) /\ IsNum(b) THEN Num(a.v + b.v) ELSE NaN

\* JSON.stringify of a number-or-absent value: NaN is written as null
JsonNum(x) == IF IsNum(x) THEN x ELSE Null

RECURSIVE Pow10(_)
Pow10(d) == IF d = 0 THEN 1 ELSE 10 * Pow10(d - 1)

\* All sequences over S of length at most n
SeqUpTo(S, n) == UNION {[1..k -> S] : k \in 0..n}

\* ------------------------------------------------------------------------
\* Network registry

EvmNetworks == {"ethereum", "polygon", "binance", "base"}
Networks == EvmNetworks \cup {"solana"}

CHAIN_INFO ==
  [n \in Networks |->
     CASE n = "ethereum" -> [chainId |-> "1", rpc |-> "https://cloudflare-eth.com",
                             nativeSymbol |-> "ETH", coinGeckoId |-> "ethereum",
                             moralisChain |-> "eth"]
       [] n = "polygon"  -> [chainId |-> "137", rpc |-> "https://polygon-rpc.com",
                             nativeSymbol |-> "MATIC", coinGeckoId |-> "polygon",
                             moralisChain |-> "polygon"]
       [] n = "binance"  -> [chainId |-> "56", rpc |-> "https://bsc-dataseed.binance.org",
                             nativeSymbol |-> "BNB", coinGeckoId |-> "binancecoin",
                             moralisChain |-> "bsc"]
       [] n = "base"     -> [chainId |-> "8453", rpc |-> "https://mainnet.base.org",
                             nativeSymbol |-> "ETH", coinGeckoId |-> "ethereum",
                             moralisChain |-> "base"]
       [] n = "solana"   -> [chainId |-> "solana", rpc |-> "https://api.mainnet-beta.solana.com",
                             nativeSymbol |-> "SOL", coinGeckoId |-> "solana",
                             moralisChain |-> "solana"]]

\* Property names every object literal inherits from Object.prototype; the
\* handlers read CHAIN_INFO[network] without an own-property test.
InheritedProps == {"constructor", "toString", "__proto__"}

\* What reading a field of an inherited member (a function, or
\* Object.prototype) gives: rpc, chainId, ... are all undefined.
InheritedMember ==
  [chainId |-> Undefined, rpc |-> Undefined, nativeSymbol |-> Undefined,
   coinGeckoId |-> Undefined, moralisChain |-> Undefined]

\* !CHAIN_INFO[network] is false: the lookup gives a truthy value
HasChain(network) == network \in Networks \/ network \in InheritedProps

\* const chain = CHAIN_INFO[network]
Chain(network) ==
  IF network \in Networks THEN CHAIN_INFO[network] ELSE InheritedMember

\* ------------------------------------------------------------------------
\* Upstream outcomes of one fetch

TransportError == [kind |-> "transport"]
BadStatus == [kind |-> "status"]
BadJson == [kind |-> "badjson"]
Ok(json) == [kind |-> "ok", json |-> json]
Failures == {TransportError, BadStatus, BadJson}
\* the adapter issued no fetch
NoFetch == [kind |-> "nofetch"]

\* An exception leaving a block of code, as the value that block yields
Thrown == [t |-> "throw"]
IsThrown(x) == x.t = "throw"

\* try { body } catch (err) { console.error(..); return null; }
Catch(x) == IF IsThrown(x) THEN Null ELSE x

\* ------------------------------------------------------------------------
\* Native-balance adapters

\* data.result of an eth_getBalance reply: absent, a string BigInt rejects,
\* or a hex quantity (v: the amount it encodes, in tenths of a coin)
EvmResults == {[t |-> "absent"], [t |-> "garbage"]} \cup {[t |-> "hex", v |-> n] : n \in {0, 5}}
EvmUpstream == Failures \cup {Ok(j) : j \in EvmResults}

\* getEvmNativeBalance issues its fetch: fetch(undefined) rejects on the URL
EvmFetches(rpc) == rpc # Undefined

\* The body of the adapter's try block; jsonRpcRequest throws on a fetch that
\* rejects, on a status that is not ok and on a body that is no JSON
EvmNativeBody(rpc, up) ==
  IF ~EvmFetches(rpc) THEN Thrown
  ELSE IF up.kind # "ok" THEN Thrown
  ELSE IF up.json.t = "absent" THEN Null
  ELSE IF up.json.t = "garbage" THEN Thrown
  ELSE Num(up.json.v)

\* getEvmNativeBalance without its try/catch
getEvmNativeBalance_NoCatch(rpc, address, up) == EvmNativeBody(rpc, up)

getEvmNativeBalance(rpc, address, up) == Catch(EvmNativeBody(rpc, up))

\* json?.result?.value of a getBalance reply: absent, a number of lamports
\* (v: in tenths of a SOL), or a value that is no number
SolanaValues == {[t |-> "absent"], [t |-> "string"]} \cup {[t |-> "lamports", v |-> n] : n \in {0, 5}}
SolanaUpstream == Failures \cup {Ok(j) : j \in SolanaValues}

SolanaBalanceBody(rpc, up) ==
  IF up.kind # "ok" THEN Thrown
  ELSE IF up.json.t = "absent" THEN Null
  ELSE IF up.json.t = "string" THEN NaN
  ELSE Num(up.json.v)

getSolanaBalance(rpc, address, up) == Catch(SolanaBalanceBody(rpc, up))

\* ------------------------------------------------------------------------
\* Price adapter

\* json?.[coinGeckoId]?.usd: absent, a number, or a value Number() maps to NaN
PriceValues == {[t |-> "absent"], [t |-> "string"], [t |-> "usd", v |-> 2000]}
PriceUpstream == Failures \cup {Ok(j) : j \in PriceValues}

NativePriceBody(coinGeckoId, up) ==
  IF up.kind # "ok" THEN Thrown
  ELSE IF up.json.t = "absent" THEN Null
  ELSE IF up.json.t = "string" THEN NaN
  ELSE Num(up.json.v)

getNativePriceUsd(coinGeckoId, up) == Catch(NativePriceBody(coinGeckoId, up))

\* ------------------------------------------------------------------------
\* Raw balance strings of provider items

IntegerStrings == {"0", "5000", "150000"}

\* BigInt(s), for the strings BigInt accepts
BigIntOf(s) ==
  CASE s = "0" -> 0
    [] s = "5000" -> 5000
    [] s = "150000" -> 150000

\* parseFloat(s), in tenths
ParseFloat(s) ==
  CASE s = "1.5" -> Num(15)
    [] s \in IntegerStrings -> Num(10 * BigIntOf(s))
    [] OTHER -> NaN

\* item.balance || '0'
OrZero(raw) == IF raw = Undefined THEN "0" ELSE raw

\* Number(BigInt(raw)) / 10 ** decimals, in tenths
Scaled(raw, decimals) == Num((10 * BigIntOf(raw)) \div Pow10(decimals))

\* The payload of a provider reply: the field holding the items is absent,
\* is no array, or is an array of items
Payloads(Items) ==
  {[t |-> "absent"], [t |-> "notarray"]}
    \cup {[t |-> "items", items |-> s] : s \in SeqUpTo(Items, MaxItems)}

\* ------------------------------------------------------------------------
\* Provider-A (Moralis) token balances

\* Items of a /wallets/{address}/tokens reply on a network whose native
\* token is sym
MoralisItems(sym) ==
  { [symbol |-> "USDC", balance |-> "150000", decimals |-> 3,
     usd_value |-> Num(200), native_token |-> FALSE],
    [symbol |-> "DUST", balance |-> "0", decimals |-> 3,
     usd_value |-> Null, native_token |-> FALSE],
    [symbol |-> "VOID", balance |-> Undefined, decimals |-> 0,
     usd_value |-> Null, native_token |-> FALSE],
    [symbol |-> "FRAC", balance |-> "1.5", decimals |-> 0,
     usd_value |-> Num(30), native_token |-> FALSE],
    [symbol |-> sym, balance |-> "5000", decimals |-> 4,
     usd_value |-> Num(9000), native_token |-> TRUE],
    [symbol |-> sym, balance |-> "5000", decimals |-> 4,
     usd_value |-> Null, native_token |-> TRUE],
    [symbol |-> sym, balance |-> "0", decimals |-> 4,
     usd_value |-> Num(0), native_token |-> TRUE] }

MoralisUpstream(sym) == Failures \cup {Ok(j) : j \in Payloads(MoralisItems(sym))}

\* if (item.balance === '0') continue
MoralisSkips(item) == item.balance = "0"

\* try { BigInt(..) / 10 ** decimals } catch { parseFloat(..) }
MoralisBalance(item) ==
  LET raw == OrZero(item.balance)
  IN IF raw \in IntegerStrings THEN Scaled(raw, item.decimals) ELSE ParseFloat(raw)

\* item.usd_value ? Number(item.usd_value) : 0
MoralisUsd(item) ==
  IF IsNum(item.usd_value) /\ item.usd_value.v # 0 THEN item.usd_value ELSE Num(0)

\* if (item.native_token): the item is kept aside, not pushed to tokens
MoralisIsNative(item) == item.native_token

\* One iteration of the loop over items
MoralisStep(acc, item) ==
  IF MoralisSkips(item) THEN acc
  ELSE IF MoralisIsNative(item)
  THEN [acc EXCEPT !.nativeFromMoralis =
          [t |-> "native", balance |-> MoralisBalance(item), usd |-> MoralisUsd(item)]]
  ELSE [acc EXCEPT
          !.portfolioValueUsd = Add(@, MoralisUsd(item)),
          !.tokens = Append(@, [symbol |-> item.symbol, balance |-> MoralisBalance(item),
                                decimals |-> item.decimals, quote |-> MoralisUsd(item),
                                nativeToken |-> FALSE])]

RECURSIVE MoralisLoop(_, _, _)
MoralisLoop(items, i, acc) ==
  IF i > Len(items) THEN acc ELSE MoralisLoop(items, i + 1, MoralisStep(acc, items[i]))

\* The body of the adapter's try block: a status that is not ok returns null,
\* a rejected fetch, a body that is no JSON and a result that is no array throw
MoralisBalancesBody(up) ==
  IF up.kind = "status" THEN Null
  ELSE IF up.kind # "ok" THEN Thrown
  ELSE IF up.json.t = "notarray" THEN Thrown
  ELSE LET items == IF up.json.t = "absent" THEN <<>> ELSE up.json.items
       IN MoralisLoop(items, 1, [t |-> "data", tokens |-> <<>>,
                                 portfolioValueUsd |-> Num(0), nativeFromMoralis |-> Null])

getMoralisBalances(chainSlug, address, apiKey, up) ==
  IF ~apiKey THEN Null ELSE Catch(MoralisBalancesBody(up))

\* ------------------------------------------------------------------------
\* Provider-B (Covalent) token balances

CovalentItems(sym) ==
  { [symbol |-> "USDC", balance |-> "150000", contract_decimals |-> 3,
     quote |-> Num(200), native_token |-> FALSE],
    [symbol |-> "DUST", balance |-> "0", contract_decimals |-> 3,
     quote |-> Num(0), native_token |-> FALSE],
    [symbol |-> "VOID", balance |-> Undefined, contract_decimals |-> 0,
     quote |-> Null, native_token |-> FALSE],
    [symbol |-> "FRAC", balance |-> "1.5", contract_decimals |-> 0,
     quote |-> Num(30), native_token |-> FALSE],
    [symbol |-> sym, balance |-> "5000", contract_decimals |-> 4,
     quote |-> Num(9000), native_token |-> TRUE] }

CovalentUpstream(sym) == Failures \cup {Ok(j) : j \in Payloads(CovalentItems(sym))}

\* .filter((item) => item.balance !== '0' && item.quote !== 0)
CovalentKeeps(item) == item.balance # "0" /\ item.quote # Num(0)

\* item.quote || 0
CovalentQuote(item) ==
  IF IsNum(item.quote) /\ item.quote.v # 0 THEN item.quote ELSE Num(0)

\* the object .map returns for one item
CovalentToken(item) ==
  [symbol |-> item.symbol, balance |-> Scaled(OrZero(item.balance), item.contract_decimals),
   decimals |-> item.contract_decimals, quote |-> CovalentQuote(item)]

RECURSIVE SumQuotes(_, _)
SumQuotes(tokens, i) ==
  IF i > Len(tokens) THEN Num(0) ELSE Add(tokens[i].quote, SumQuotes(tokens, i + 1))

CovalentBalancesBody(up) ==
  IF up.kind = "status" THEN Null
  ELSE IF up.kind # "ok" THEN Thrown
  ELSE IF up.json.t = "notarray" THEN Thrown
  ELSE LET items == IF up.json.t = "absent" THEN <<>> ELSE up.json.items
           kept == SelectSeq(items, CovalentKeeps)
       IN IF \E i \in 1..Len(kept) : OrZero(kept[i].balance) \notin IntegerStrings
          THEN Thrown   \* BigInt rejects the string
          ELSE LET tokens == [i \in 1..Len(kept) |-> CovalentToken(kept[i])]
               IN [t |-> "data", tokens |-> tokens, portfolioValueUsd |-> SumQuotes(tokens, 1)]

getCovalentBalances(chainId, address, apiKey, up) ==
  IF ~apiKey THEN Null ELSE Catch(CovalentBalancesBody(up))

\* ------------------------------------------------------------------------
\* Transaction adapters.  A JavaScript array is List(s); a transaction list
\* that is absent is Null.

List(s) == [t |-> "list", items |-> s]

MoralisTxItems ==
  { [hash |-> "0xa1", value |-> Num(5), value_usd |-> Num(10000), receipt_status |-> "1"],
    [hash |-> "0xb2", value |-> Null, value_usd |-> Null, receipt_status |-> Undefined] }

MoralisTxUpstream == Failures \cup {Ok(j) : j \in Payloads(MoralisTxItems)}

\* the object .map returns for one item of the history
MoralisTx(tx) ==
  [txHash |-> tx.hash,
   value |-> IF IsNum(tx.value) /\ tx.value.v # 0 THEN tx.value ELSE Num(0),
   valueQuote |-> IF IsNum(tx.value_usd) /\ tx.value_usd.v # 0 THEN tx.value_usd ELSE Null,
   successful |-> IF tx.receipt_status # Undefined THEN tx.receipt_status # "" ELSE TRUE]

MoralisTransactionsBody(up) ==
  IF up.kind = "status" THEN Null
  ELSE IF up.kind # "ok" THEN Thrown
  ELSE IF up.json.t = "notarray" THEN Thrown
  ELSE LET items == IF up.json.t = "absent" THEN <<>> ELSE up.json.items
       IN List([i \in 1..Len(items) |-> MoralisTx(items[i])])

getMoralisTransactions(chainSlug, address, apiKey, up) ==
  IF ~apiKey THEN Null ELSE Catch(MoralisTransactionsBody(up))

CovalentTxItems ==
  { [tx_hash |-> "0xc3", value |-> "500", value_quote |-> Num(10000), successful |-> TRUE],
    [tx_hash |-> "0xd4", value |-> "0", value_quote |-> Null, successful |-> FALSE] }

CovalentTxUpstream == Failures \cup {Ok(j) : j \in Payloads(CovalentTxItems)}

CovalentTx(tx) ==
  [txHash |-> tx.tx_hash, value |-> tx.value, valueQuote |-> tx.value_quote,
   successful |-> tx.successful]

CovalentTransactionsBody(up) ==
  IF up.kind = "status" THEN Null
  ELSE IF up.kind # "ok" THEN Thrown
  ELSE IF up.json.t = "notarray" THEN Thrown
  ELSE LET items == IF up.json.t = "absent" THEN <<>> ELSE up.json.items
       IN List([i \in 1..Len(items) |-> CovalentTx(items[i])])

getCovalentTransactions(chainId, address, apiKey, up) ==
  IF ~apiKey THEN Null ELSE Catch(CovalentTransactionsBody(up))

SignatureItems ==
  { [signature |-> "5h6x", slot |-> 100], [signature |-> "3k9q", slot |-> 99] }

SignaturesUpstream == Failures \cup {Ok(j) : j \in Payloads(SignatureItems)}

\* return json?.result || []: a result that is no array is returned as it is
SolanaSignaturesBody(up) ==
  IF up.kind # "ok" THEN Thrown
  ELSE IF up.json.t = "absent" THEN List(<<>>)
  ELSE IF up.json.t = "notarray" THEN [t |-> "notarray"]
  ELSE List(up.json.items)

getSolanaSignatures(rpc, address, up) == Catch(SolanaSignaturesBody(up))

\* ------------------------------------------------------------------------
\* The request handler

VARIABLES
  env,            \* process.env: which provider keys are configured
  pc,             \* per request: where handleRequest is suspended
  req,            \* per request: method, pathname and query parameters
  nativeBalance,  \* per request: the local of that name
  tokenData,      \* per request: the local of that name
  moralisNative,  \* per request: the local of that name
  res,            \* per request: the response written (statusCode, body)
  calls           \* per request: the adapter calls made, with what each
                  \* fetched upstream and what it returned (history)

VARIABLE
  probe           \* one provider adapter applied on its own: its arguments,
                  \* the upstream outcome and what it returned

vars == <<env, pc, req, nativeBalance, tokenData, moralisNative, res, calls, probe>>

\* The requests the server is given
Requests == {"r1"}

\* the result of an adapter that has not been applied yet
Pending == [t |-> "pending"]
\* no adapter is applied on its own
NoProbe == [fn |-> Undefined, network |-> Undefined, apiKey |-> FALSE,
            up |-> NoFetch, fetched |-> FALSE, ret |-> Pending]
Reqs == DOMAIN pc

Methods == {"GET", "POST", "OPTIONS"}
Pathnames == {"/api/balances", "/api/transactions", "/nowhere"}
\* urlObj.searchParams.get('network'): Undefined when the parameter is missing
NetworkParams == Networks \cup {"Ethereum", "dogecoin", "constructor", "", Undefined}
AddressParams == {"0xabc", "", Undefined}

NoReq == [method |-> Undefined, pathname |-> Undefined,
          network |-> Undefined, address |-> Undefined]
NoRes == [statusCode |-> 0]

\* !x on a query parameter: missing or empty
Falsy(x) == x = Undefined \/ x = ""

\* Invalid without its test of the address
Invalid_NoAddressCheck(network, address) == Falsy(network) \/ ~HasChain(network)

\* if (!network || !address || !CHAIN_INFO[network])
Invalid(network, address) == Falsy(network) \/ Falsy(address) \/ ~HasChain(network)

ErrorBody(msg) == [error |-> msg]
\* res.end() without data
NoBody == [empty |-> TRUE]

\* TokenSource with the Provider-B fallback also taken for Solana
TokenSource_CovalentForSolana(network, e) ==
  IF e.MORALIS_API_KEY THEN "moralis"
  ELSE IF e.COVALENT_API_KEY THEN "covalent" ELSE "none"

\* Which provider the balances branch queries for token data: lines 435-460
TokenSource(network, e) ==
  IF network = "solana"
  THEN IF e.MORALIS_API_KEY THEN "moralis" ELSE "none"
  ELSE IF e.MORALIS_API_KEY THEN "moralis"
       ELSE IF e.COVALENT_API_KEY THEN "covalent" ELSE "none"

\* TxSource without the Solana branch
TxSource_ProviderForSolana(network, e) ==
  IF e.MORALIS_API_KEY THEN "moralis"
  ELSE IF e.COVALENT_API_KEY THEN "covalent" ELSE "none"

\* Which source the transactions branch queries: lines 509-522
TxSource(network, e) ==
  IF network = "solana" THEN "solana"
  ELSE IF e.MORALIS_API_KEY THEN "moralis"
       ELSE IF e.COVALENT_API_KEY THEN "covalent" ELSE "none"

\* NativeValueUsd without its test of the balance: null * price is 0
NativeValueUsd_NoBalanceCheck(balance, priceUsd) ==
  IF IsNull(priceUsd) THEN Null
  ELSE IF IsNull(balance) THEN Mul(Num(0), priceUsd) ELSE Mul(balance, priceUsd)

\* if (nativeBalance != null && priceUsd != null) nativeValueUsd = nativeBalance * priceUsd
NativeValueUsd(balance, priceUsd) ==
  IF ~IsNull(balance) /\ ~IsNull(priceUsd) THEN Mul(balance, priceUsd) ELSE Null

\* FallbackBalance without its isNaN test
FallbackBalance_NullOnly(balance, native) ==
  IF IsNull(balance) /\ ~IsNull(native) THEN native.balance ELSE balance

\* if ((nativeBalance == null || isNaN(nativeBalance)) && moralisNative)
FallbackBalance(balance, native) ==
  IF (IsNull(balance) \/ IsNaN(balance)) /\ ~IsNull(native) THEN native.balance ELSE balance

\* FallbackUsd testing !nativeValueUsd, which a value of 0 passes as well
FallbackUsd_Falsy(valueUsd, native) ==
  IF (~IsNum(valueUsd) \/ valueUsd.v = 0) /\ ~IsNull(native) /\ ~IsNull(native.usd)
  THEN native.usd ELSE valueUsd

\* if (nativeValueUsd == null && moralisNative && moralisNative.usd != null)
FallbackUsd(valueUsd, native) ==
  IF IsNull(valueUsd) /\ ~IsNull(native) /\ ~IsNull(native.usd) THEN native.usd ELSE valueUsd

\* JSON.stringify of one entry of tokenBalances
JsonToken(tok) == [tok EXCEPT !.balance = JsonNum(@), !.quote = JsonNum(@)]

\* TokenBalances with an empty list in place of null
TokenBalances_EmptyList(data) ==
  IF IsNull(data) THEN List(<<>>)
  ELSE List([i \in 1..Len(data.tokens) |-> JsonToken(data.tokens[i])])

\* tokenBalances / tokenPortfolioValueUsd: null unless tokenData is truthy
TokenBalances(data) ==
  IF IsNull(data) THEN Null
  ELSE List([i \in 1..Len(data.tokens) |-> JsonToken(data.tokens[i])])

TokenPortfolioValueUsd(data) ==
  IF IsNull(data) THEN Null ELSE JsonNum(data.portfolioValueUsd)

\* The body of a 200 balances response, as serialised: lines 461-495
BalancesBody(network, address, balance, data, native, priceUsd) ==
  [network |-> network,
   address |-> address,
   nativeBalance |-> JsonNum(FallbackBalance(balance, native)),
   nativeSymbol |-> Chain(network).nativeSymbol,
   nativeValueUsd |-> JsonNum(FallbackUsd(NativeValueUsd(balance, priceUsd), native)),
   tokenBalances |-> TokenBalances(data),
   tokenPortfolioValueUsd |-> TokenPortfolioValueUsd(data)]

TransactionsBody(network, address, txs) ==
  [network |-> network, address |-> address, transactions |-> txs]

Respond(r, status, body) == res' = [res EXCEPT ![r] = [statusCode |-> status, body |-> body]]

Call(fn, up, ret) == [fn |-> fn, up |-> up, ret |-> ret]

\* catch (err) { ... res.statusCode = 500 ... }: lines 561-566
InternalError(r) ==
  /\ Respond(r, 500, ErrorBody("Internal server error"))
  /\ pc' = [pc EXCEPT ![r] = "done"]

Init ==
  /\ env \in [MORALIS_API_KEY : BOOLEAN, COVALENT_API_KEY : BOOLEAN]
  /\ pc = [r \in Requests |-> "idle"]
  /\ req = [r \in Requests |-> NoReq]
  /\ nativeBalance = [r \in Requests |-> Null]
  /\ tokenData = [r \in Requests |-> Null]
  /\ moralisNative = [r \in Requests |-> Null]
  /\ res = [r \in Requests |-> NoRes]
  /\ calls = [r \in Requests |-> <<>>]
  /\ probe = NoProbe

\* Several requests are in flight in this run of the server
Concurrent == Cardinality(Reqs) > 1

\* The request shapes sent when several requests are in flight: GETs of the
\* two endpoints for an EVM network and for Solana
SampleParams == {"GET", "/api/balances", "/api/transactions", "ethereum", "solana", "0xabc"}

\* The upstream outcomes met when several requests are in flight: a refusal,
\* a balance of 0.5, a price, or a payload of one item with a balance
SampledOutcome(up) ==
  \/ up.kind = "nofetch"
  \/ up = BadStatus
  \/ /\ up.kind = "ok"
     /\ \/ up.json.t \in {"hex", "lamports"} /\ up.json.v = 5
        \/ up.json.t = "usd"
        \/ /\ up.json.t = "items"
           /\ Len(up.json.items) = 1
           /\ "balance" \in DOMAIN up.json.items[1]
                => up.json.items[1].balance \in {"5000", "150000"}

\* The request parameters / upstream outcomes a run draws from S
OfferedParams(S) == IF Concurrent THEN S \cap SampleParams ELSE S
OfferedOutcomes(S) == IF Concurrent THEN {up \in S : SampledOutcome(up)} ELSE S

\* a variable declared outside handleRequest, which every request shares
Own_Shared(v, r) == v[CHOOSE q \in DOMAIN v : TRUE]

\* let nativeBalance, tokenData, moralisNative of lines 431-433 and 507 are
\* locals of one invocation of handleRequest
Own(v, r) == v[r]

\* handleRequest up to its first await (or to its response, when it awaits
\* nothing): lines 409-437, 449, 498-511, 514-521, 557-560
HandleRequest(r) ==
  /\ pc[r] = "idle"
  /\ \E method \in OfferedParams(Methods), pathname \in OfferedParams(Pathnames),
        network \in OfferedParams(NetworkParams), address \in OfferedParams(AddressParams) :
       /\ req' = [req EXCEPT ![r] = [method |-> method, pathname |-> pathname,
                                     network |-> network, address |-> address]]
       /\ IF method = "OPTIONS"
          THEN /\ Respond(r, 204, NoBody)
               /\ pc' = [pc EXCEPT ![r] = "done"]
          ELSE IF pathname \in {"/api/balances", "/api/transactions"} /\ method = "GET"
          THEN IF Invalid(network, address)
               THEN /\ Respond(r, 400, ErrorBody("Missing or invalid network/address"))
                    /\ pc' = [pc EXCEPT ![r] = "done"]
               ELSE IF pathname = "/api/balances"
               THEN /\ pc' = [pc EXCEPT ![r] = "native"]
                    /\ UNCHANGED res
               ELSE IF TxSource(network, env) = "none"
               THEN /\ Respond(r, 200, TransactionsBody(network, address, Null))
                    /\ pc' = [pc EXCEPT ![r] = "done"]
               ELSE /\ pc' = [pc EXCEPT ![r] = "txs"]
                    /\ UNCHANGED res
          ELSE /\ Respond(r, 404, ErrorBody("Not Found"))
               /\ pc' = [pc EXCEPT ![r] = "done"]
  /\ UNCHANGED <<env, nativeBalance, tokenData, moralisNative, calls, probe>>

\* handleRequest on a request whose URL does not parse: new URL(req.url,
\* `http://${req.headers.host}`) throws at line 418, after the OPTIONS test and
\* before the try block, so the promise handleRequest returned rejects and
\* nothing is written to res.  No pathname or parameter exists for it.
HandleUnparsable(r) ==
  /\ pc[r] = "idle"
  /\ \E method \in OfferedParams(Methods) \ {"OPTIONS"} :
       req' = [req EXCEPT ![r] = [NoReq EXCEPT !.method = method]]
  /\ pc' = [pc EXCEPT ![r] = "rejected"]
  /\ UNCHANGED <<env, nativeBalance, tokenData, moralisNative, res, calls, probe>>

\* The awaited native-balance adapter completes: lines 435-437, 447-449
AwaitNative(r) ==
  /\ pc[r] = "native"
  /\ LET network == req[r].network
         address == req[r].address
         chain == Chain(network)
     IN \E up \in OfferedOutcomes(IF network = "solana" THEN SolanaUpstream
                                  ELSE IF EvmFetches(chain.rpc) THEN EvmUpstream
                                  ELSE {NoFetch}) :
          LET ret == IF network = "solana"
                     THEN getSolanaBalance(chain.rpc, address, up)
                     ELSE getEvmNativeBalance(chain.rpc, address, up)
              fn == IF network = "solana" THEN "getSolanaBalance" ELSE "getEvmNativeBalance"
          IN /\ calls' = [calls EXCEPT ![r] = Append(@, Call(fn, up, ret))]
             /\ IF IsThrown(ret)
                THEN InternalError(r) /\ UNCHANGED nativeBalance
                ELSE /\ nativeBalance' = [nativeBalance EXCEPT ![r] = ret]
                     /\ pc' = [pc EXCEPT ![r] =
                          IF TokenSource(network, env) = "none" THEN "price" ELSE "tokens"]
                     /\ UNCHANGED res
  /\ UNCHANGED <<env, req, tokenData, moralisNative, probe>>

\* a handler that asks the token provider again when it returned null
AfterTokens_RetryOnNull(ret) == IF IsNull(ret) THEN "tokens" ELSE "price"

\* Where the handler goes once the token provider has returned: whatever it
\* returned, to the price lookup of line 462
AfterTokens(ret) == "price"

\* The awaited token-balance adapter completes: lines 441-446, 451-459
AwaitTokens(r) ==
  /\ pc[r] = "tokens"
  /\ LET network == req[r].network
         address == req[r].address
         chain == Chain(network)
         source == TokenSource(network, env)
         apiKey == IF source = "moralis" THEN env.MORALIS_API_KEY ELSE env.COVALENT_API_KEY
     IN \E up \in OfferedOutcomes(IF ~apiKey THEN {NoFetch}
                                  ELSE IF source = "moralis"
                                  THEN MoralisUpstream(chain.nativeSymbol)
                                  ELSE CovalentUpstream(chain.nativeSymbol)) :
          LET ret == IF source = "moralis"
                     THEN getMoralisBalances(chain.moralisChain, address,
                                             env.MORALIS_API_KEY, up)
                     ELSE getCovalentBalances(chain.chainId, address,
                                              env.COVALENT_API_KEY, up)
              fn == IF source = "moralis" THEN "getMoralisBalances" ELSE "getCovalentBalances"
          IN /\ calls' = [calls EXCEPT ![r] = Append(@, Call(fn, up, ret))]
             /\ IF IsThrown(ret)
                THEN InternalError(r) /\ UNCHANGED <<tokenData, moralisNative>>
                ELSE /\ tokenData' = [tokenData EXCEPT ![r] = ret]
                     /\ moralisNative' = [moralisNative EXCEPT ![r] =
                          IF source = "moralis" /\ ~IsNull(ret) /\ ~IsNull(ret.nativeFromMoralis)
                          THEN ret.nativeFromMoralis ELSE @]
                     /\ pc' = [pc EXCEPT ![r] = AfterTokens(ret)]
                     /\ UNCHANGED res
  /\ UNCHANGED <<env, req, nativeBalance, probe>>

\* The awaited price adapter completes and the response is composed and
\* sent: lines 461-496
AwaitPrice(r) ==
  /\ pc[r] = "price"
  /\ LET network == req[r].network
         address == req[r].address
         chain == Chain(network)
     IN \E up \in OfferedOutcomes(PriceUpstream) :
          LET priceUsd == getNativePriceUsd(chain.coinGeckoId, up)
          IN /\ calls' = [calls EXCEPT ![r] = Append(@, Call("getNativePriceUsd", up, priceUsd))]
             /\ IF IsThrown(priceUsd)
                THEN InternalError(r) /\ UNCHANGED nativeBalance
                ELSE /\ nativeBalance' = [nativeBalance EXCEPT ![r] =
                                            FallbackBalance(Own(nativeBalance, r),
                                                            Own(moralisNative, r))]
                     /\ Respond(r, 200, BalancesBody(network, address, Own(nativeBalance, r),
                                                     Own(tokenData, r), Own(moralisNative, r),
                                                     priceUsd))
                     /\ pc' = [pc EXCEPT ![r] = "done"]
  /\ UNCHANGED <<env, req, tokenData, moralisNative, probe>>

\* The awaited transaction source completes and the response is sent:
\* lines 509-526
AwaitTxs(r) ==
  /\ pc[r] = "txs"
  /\ LET network == req[r].network
         address == req[r].address
         chain == Chain(network)
         source == TxSource(network, env)
         apiKey == source = "solana" \/ (IF source = "moralis" THEN env.MORALIS_API_KEY
                                         ELSE env.COVALENT_API_KEY)
     IN \E up \in OfferedOutcomes(IF ~apiKey THEN {NoFetch}
                                  ELSE IF source = "solana" THEN SignaturesUpstream
                                  ELSE IF source = "moralis" THEN MoralisTxUpstream
                                  ELSE CovalentTxUpstream) :
          LET txs == IF source = "solana" THEN getSolanaSignatures(chain.rpc, address, up)
                     ELSE IF source = "moralis"
                     THEN getMoralisTransactions(chain.moralisChain, address,
                                                 env.MORALIS_API_KEY, up)
                     ELSE getCovalentTransactions(chain.chainId, address,
                                                  env.COVALENT_API_KEY, up)
              fn == IF source = "solana" THEN "getSolanaSignatures"
                    ELSE IF source = "moralis" THEN "getMoralisTransactions"
                    ELSE "getCovalentTransactions"
          IN /\ calls' = [calls EXCEPT ![r] = Append(@, Call(fn, up, txs))]
             /\ IF IsThrown(txs)
                THEN InternalError(r)
                ELSE /\ Respond(r, 200, TransactionsBody(network, address, txs))
                     /\ pc' = [pc EXCEPT ![r] = "done"]
  /\ UNCHANGED <<env, req, nativeBalance, tokenData, moralisNative, probe>>

Next ==
  \/ \E r \in Reqs : HandleRequest(r)
  \/ \E r \in Reqs : HandleUnparsable(r)
  \/ \E r \in Reqs : AwaitNative(r)
  \/ \E r \in Reqs : AwaitTokens(r)
  \/ \E r \in Reqs : AwaitPrice(r)
  \/ \E r \in Reqs : AwaitTxs(r)

Spec == Init /\ [][Next]_vars

\* ------------------------------------------------------------------------
\* Two requests in flight at once: createServer calls handleRequest for each
\* and the event loop interleaves them at their awaits

ConcurrentRequests == {"r1", "r2"}

InitConcurrent ==
  /\ env \in [MORALIS_API_KEY : BOOLEAN, COVALENT_API_KEY : BOOLEAN]
  /\ pc = [r \in ConcurrentRequests |-> "idle"]
  /\ req = [r \in ConcurrentRequests |-> NoReq]
  /\ nativeBalance = [r \in ConcurrentRequests |-> Null]
  /\ tokenData = [r \in ConcurrentRequests |-> Null]
  /\ moralisNative = [r \in ConcurrentRequests |-> Null]
  /\ res = [r \in ConcurrentRequests |-> NoRes]
  /\ calls = [r \in ConcurrentRequests |-> <<>>]
  /\ probe = NoProbe

SpecConcurrent == InitConcurrent /\ [][Next]_vars

\* ------------------------------------------------------------------------
\* The provider adapters applied on their own, to any chain of the registry,
\* with or without an API key, against every upstream outcome

ProviderFns == {"getMoralisBalances", "getCovalentBalances",
                "getMoralisTransactions", "getCovalentTransactions"}

\* the upstream outcomes the provider behind adapter fn can produce
ProviderUpstream(fn, sym) ==
  CASE fn = "getMoralisBalances" -> MoralisUpstream(sym)
    [] fn = "getCovalentBalances" -> CovalentUpstream(sym)
    [] fn = "getMoralisTransactions" -> MoralisTxUpstream
    [] fn = "getCovalentTransactions" -> CovalentTxUpstream

\* if (!apiKey) return null; comes before the fetch
ProviderFetches(apiKey) == apiKey

\* await fn(chain, address, apiKey)
ApplyProvider(fn, chain, address, apiKey, up) ==
  CASE fn = "getMoralisBalances" -> getMoralisBalances(chain.moralisChain, address, apiKey, up)
    [] fn = "getCovalentBalances" -> getCovalentBalances(chain.chainId, address, apiKey, up)
    [] fn = "getMoralisTransactions" ->
         getMoralisTransactions(chain.moralisChain, address, apiKey, up)
    [] fn = "getCovalentTransactions" ->
         getCovalentTransactions(chain.chainId, address, apiKey, up)

InitAdapters ==
  /\ env = [MORALIS_API_KEY |-> FALSE, COVALENT_API_KEY |-> FALSE]
  /\ pc = [r \in Requests |-> "idle"]
  /\ req = [r \in Requests |-> NoReq]
  /\ nativeBalance = [r \in Requests |-> Null]
  /\ tokenData = [r \in Requests |-> Null]
  /\ moralisNative = [r \in Requests |-> Null]
  /\ res = [r \in Requests |-> NoRes]
  /\ calls = [r \in Requests |-> <<>>]
  /\ \E fn \in ProviderFns, network \in Networks, apiKey \in BOOLEAN :
       \E up \in ProviderUpstream(fn, CHAIN_INFO[network].nativeSymbol) :
         probe = [fn |-> fn, network |-> network, apiKey |-> apiKey,
                  up |-> up, fetched |-> FALSE, ret |-> Pending]

ApplyAdapter ==
  /\ probe.ret = Pending
  /\ probe' = [probe EXCEPT
                 !.fetched = ProviderFetches(probe.apiKey),
                 !.ret = ApplyProvider(probe.fn, CHAIN_INFO[probe.network], "0xabc",
                                       probe.apiKey, probe.up)]
  /\ UNCHANGED <<env, pc, req, nativeBalance, tokenData, moralisNative, res, calls>>

NextAdapters == ApplyAdapter

SpecAdapters == InitAdapters /\ [][NextAdapters]_vars

\* ------------------------------------------------------------------------
\* Properties

ApiPaths == {"/api/balances", "/api/transactions"}

\* request r is a GET of one of the two endpoints and has been received
ApiRequest(r) ==
  pc[r] # "idle" /\ req[r].method = "GET" /\ req[r].pathname \in ApiPaths

BalancesRequest(r) == ApiRequest(r) /\ req[r].pathname = "/api/balances"
TransactionsRequest(r) == ApiRequest(r) /\ req[r].pathname = "/api/transactions"

Answered(r) == pc[r] = "done"

\* the adapter calls of request r that sent a request upstream
Queries(r) == {i \in DOMAIN calls[r] : calls[r][i].up.kind # "nofetch"}
QueriesOf(r, fns) == {i \in Queries(r) : calls[r][i].fn \in fns}

\* the result of request r's call of adapter fn (Null when it made none)
Returned(r, fns) ==
  IF \E i \in DOMAIN calls[r] : calls[r][i].fn \in fns
  THEN calls[r][CHOOSE i \in DOMAIN calls[r] : calls[r][i].fn \in fns].ret
  ELSE Null

NativeAdapters == {"getEvmNativeBalance", "getSolanaBalance"}
BalanceProviders == {"getMoralisBalances", "getCovalentBalances"}
TxProviders == {"getMoralisTransactions", "getCovalentTransactions"}

IsErrorResponse(r, status) ==
  res[r].statusCode = status /\ "error" \in DOMAIN res[r].body

\* C1: a request to either endpoint whose network parameter is a string
\* other than the five identifiers is answered 400 with an error body and
\* queries no upstream source.
C1_UnknownNetworkRejected ==
  \A r \in Reqs :
    (ApiRequest(r) /\ req[r].network # Undefined /\ req[r].network \notin Networks)
      => /\ Queries(r) = {}
         /\ Answered(r) => IsErrorResponse(r, 400)

\* C2: a request to either endpoint whose network or address parameter is
\* missing or empty is answered 400 with an error body, and no adapter is
\* invoked for it.
C2_MissingParamRejected ==
  \A r \in Reqs :
    (ApiRequest(r) /\ (Falsy(req[r].network) \/ Falsy(req[r].address)))
      => /\ calls[r] = <<>>
         /\ Answered(r)
         /\ IsErrorResponse(r, 400)

C2_Witness ==
  \E r \in Reqs :
    /\ BalancesRequest(r) /\ Answered(r)
    /\ req[r].network = "ethereum" /\ req[r].address = Undefined
    /\ IsErrorResponse(r, 400)

\* a request with a recognised network and a non-empty address
ValidRequest(r) ==
  ApiRequest(r) /\ req[r].network \in Networks /\ ~Falsy(req[r].address)

\* C3: every valid request to either endpoint is answered 200, whatever
\* keys are configured and however each upstream call ends; no response to
\* a valid request carries another status.
C3_ValidRequestAnswered200 ==
  \A r \in Reqs :
    ValidRequest(r) =>
      /\ Answered(r) => res[r].statusCode = 200
      /\ ~Answered(r) => res[r] = NoRes

\* a balances request answered 200 although its three upstream calls ended
\* in the three kinds of failure
C3_Witness ==
  \E r \in Reqs :
    /\ ValidRequest(r) /\ BalancesRequest(r) /\ Answered(r)
    /\ res[r].statusCode = 200
    /\ Len(calls[r]) = 3
    /\ calls[r][1].up = BadJson
    /\ calls[r][2].up = TransportError
    /\ calls[r][3].up = BadStatus

\* the token-data stage of balances request r is over
\* a balances / transactions request answered 200
BalancesAnswered(r) == BalancesRequest(r) /\ Answered(r) /\ res[r].statusCode = 200
TransactionsAnswered(r) ==
  TransactionsRequest(r) /\ Answered(r) /\ res[r].statusCode = 200

\* the token-data stage of balances request r is over
TokensSettled(r) == BalancesRequest(r) /\ (pc[r] = "price" \/ BalancesAnswered(r))

\* C4: a balances request queries at most one token-data provider; on a
\* recognised network Provider-A is queried iff its key is configured, and
\* Provider-B iff the network is EVM, the Provider-A key is absent and the
\* Provider-B key is configured; Solana without a Provider-A key gets no
\* token data.
C4_OneTokenProvider ==
  \A r \in Reqs :
    /\ BalancesRequest(r) => Cardinality(QueriesOf(r, BalanceProviders)) <= 1
    /\ (TokensSettled(r) /\ req[r].network \in Networks) =>
         /\ QueriesOf(r, {"getMoralisBalances"}) # {} <=> env.MORALIS_API_KEY
         /\ QueriesOf(r, {"getCovalentBalances"}) # {}
              <=> (/\ req[r].network \in EvmNetworks
                   /\ ~env.MORALIS_API_KEY
                   /\ env.COVALENT_API_KEY)
         /\ (req[r].network = "solana" /\ ~env.MORALIS_API_KEY) => IsNull(tokenData[r])

\* both keys configured, Provider-A answered Unavailable, and Provider-B was
\* not asked
C4_Witness ==
  \E r \in Reqs :
    /\ BalancesAnswered(r) /\ req[r].network = "polygon"
    /\ env.MORALIS_API_KEY /\ env.COVALENT_API_KEY
    /\ QueriesOf(r, {"getMoralisBalances"}) # {}
    /\ IsNull(Returned(r, {"getMoralisBalances"}))
    /\ QueriesOf(r, {"getCovalentBalances"}) = {}

\* the items of the provider payload of request r (none when it had none)
ProviderItems(r) ==
  LET is == {i \in QueriesOf(r, BalanceProviders) :
               calls[r][i].up.kind = "ok" /\ calls[r][i].up.json.t = "items"}
  IN IF is = {} THEN <<>> ELSE calls[r][CHOOSE i \in is : TRUE].up.json.items

ListedSymbols(r) ==
  IF IsNull(res[r].body.tokenBalances) THEN {}
  ELSE {res[r].body.tokenBalances.items[i].symbol :
          i \in DOMAIN res[r].body.tokenBalances.items}

RECURSIVE SumNonNativeUsd(_, _)
\* the USD values of the payload's holdings that are not the native token
SumNonNativeUsd(items, i) ==
  IF i > Len(items) THEN 0
  ELSE LET it == items[i]
           usd == IF "quote" \in DOMAIN it THEN it.quote ELSE it.usd_value
       IN (IF ~it.native_token /\ IsNum(usd) THEN usd.v ELSE 0)
            + SumNonNativeUsd(items, i + 1)

\* C5: a native token the provider reports inline is not listed in
\* tokenBalances and its USD value is not part of tokenPortfolioValueUsd,
\* for either provider.
C5_NativeNeverListed ==
  \A r \in Reqs :
    (BalancesAnswered(r) /\ req[r].network \in Networks
       /\ ~IsNull(res[r].body.tokenBalances)) =>
      /\ \A i \in DOMAIN ProviderItems(r) :
           ProviderItems(r)[i].native_token =>
             ProviderItems(r)[i].symbol \notin ListedSymbols(r)
      /\ IsNum(res[r].body.tokenPortfolioValueUsd)
           => res[r].body.tokenPortfolioValueUsd.v <= SumNonNativeUsd(ProviderItems(r), 1)

\* C6 as stated: nativeValueUsd is non-null only when both a native balance
\* and a price were available.
C6_UsdOnlyWithBalanceAndPrice ==
  \A r \in Reqs :
    (BalancesAnswered(r) /\ ~IsNull(res[r].body.nativeValueUsd)) =>
      /\ ~IsNull(res[r].body.nativeBalance)
      /\ ~IsNull(Returned(r, {"getNativePriceUsd"}))

\* the native entry the queried provider surfaced for request r
SurfacedNative(r) ==
  LET data == Returned(r, {"getMoralisBalances"})
  IN IF IsNull(data) THEN Null ELSE data.nativeFromMoralis

\* C6 (amended): nativeValueUsd is non-null only when both the RPC native
\* balance and the price were available, or when Provider-A surfaced a
\* native entry, whose USD value is then used; otherwise it is null.
C6_UsdOnlyWithBalanceAndPriceOrProvider ==
  \A r \in Reqs :
    (BalancesAnswered(r) /\ ~IsNull(res[r].body.nativeValueUsd)) =>
      \/ /\ IsNum(Returned(r, NativeAdapters))
         /\ IsNum(Returned(r, {"getNativePriceUsd"}))
      \/ /\ ~IsNull(SurfacedNative(r))
         /\ res[r].body.nativeValueUsd = SurfacedNative(r).usd

\* price lookup failed, yet the provider's USD value of the native holding
\* is reported
C6_Witness ==
  \E r \in Reqs :
    /\ BalancesAnswered(r)
    /\ IsNull(Returned(r, {"getNativePriceUsd"}))
    /\ IsNum(Returned(r, NativeAdapters))
    /\ res[r].body.nativeValueUsd = Num(9000)

\* C7: no entry of tokenBalances has balance 0.
C7_NoZeroBalanceListed ==
  \A r \in Reqs :
    (BalancesAnswered(r) /\ req[r].network \in Networks
       /\ ~IsNull(res[r].body.tokenBalances)) =>
      \A i \in DOMAIN res[r].body.tokenBalances.items :
        res[r].body.tokenBalances.items[i].balance # Num(0)

\* C8: when the RPC adapter returned null or NaN and the provider surfaced
\* a native balance, the response's nativeBalance is the provider's.
C8_ProviderNativeFallback ==
  \A r \in Reqs :
    (/\ BalancesAnswered(r)
     /\ ~IsNum(Returned(r, NativeAdapters))
     /\ ~IsNull(SurfacedNative(r)))
      => res[r].body.nativeBalance = JsonNum(SurfacedNative(r).balance)

\* Solana RPC gave a value that is no number, the price lookup failed, and
\* the provider's 0.5 SOL is reported
C8_Witness ==
  \E r \in Reqs :
    /\ BalancesAnswered(r) /\ req[r].network = "solana"
    /\ IsNaN(Returned(r, NativeAdapters))
    /\ IsNull(Returned(r, {"getNativePriceUsd"}))
    /\ ~IsNull(SurfacedNative(r))
    /\ res[r].body.nativeBalance = Num(5)

NoKeys == ~env.MORALIS_API_KEY /\ ~env.COVALENT_API_KEY

\* C9: with no provider key, a balances response has tokenBalances and
\* tokenPortfolioValueUsd null, nativeBalance from RPC and nativeValueUsd
\* = balance * price; an EVM transactions response has transactions null;
\* no provider is called.
C9_NoKeysNoTokenData ==
  \A r \in Reqs :
    NoKeys =>
      /\ ApiRequest(r) =>
           \A i \in DOMAIN calls[r] : calls[r][i].fn \notin BalanceProviders \cup TxProviders
      /\ BalancesAnswered(r) =>
           LET b == Returned(r, NativeAdapters)
               p == Returned(r, {"getNativePriceUsd"})
           IN /\ res[r].body.tokenBalances = Null
              /\ res[r].body.tokenPortfolioValueUsd = Null
              /\ res[r].body.nativeBalance = (IF IsNum(b) THEN b ELSE Null)
              /\ res[r].body.nativeValueUsd =
                   (IF IsNum(b) /\ IsNum(p) THEN Num(b.v * p.v) ELSE Null)
      /\ (TransactionsAnswered(r) /\ req[r].network \in EvmNetworks) =>
           res[r].body.transactions = Null /\ calls[r] = <<>>

\* balance 0.5 and price 2000 give nativeValueUsd 1000, tokenBalances null
C9_Witness ==
  \E r \in Reqs :
    /\ NoKeys /\ BalancesAnswered(r)
    /\ req[r].network = "ethereum" /\ req[r].address = "0xabc"
    /\ res[r].body.nativeBalance = Num(5)
    /\ res[r].body.nativeValueUsd = Num(10000)
    /\ res[r].body.tokenBalances = Null

\* the one call a transactions request made, when it made exactly one
OnlyCall(r) == calls[r][1]

\* C10: a Solana transactions request queries the signature adapter alone
\* and returns its list unchanged; an EVM one queries Provider-A if its key
\* is configured, else Provider-B if its key is configured, else nothing
\* and answers transactions null; never two sources.
C10_TransactionSource ==
  \A r \in Reqs :
    (TransactionsAnswered(r) /\ req[r].network \in Networks) =>
      LET source == IF req[r].network = "solana" THEN "getSolanaSignatures"
                    ELSE IF env.MORALIS_API_KEY THEN "getMoralisTransactions"
                    ELSE IF env.COVALENT_API_KEY THEN "getCovalentTransactions"
                    ELSE "none"
      IN IF source = "none"
         THEN calls[r] = <<>> /\ res[r].body.transactions = Null
         ELSE /\ Len(calls[r]) = 1
              /\ OnlyCall(r).fn = source
              /\ OnlyCall(r).up.kind # "nofetch"
              /\ res[r].body.transactions = OnlyCall(r).ret
              /\ (source = "getSolanaSignatures" /\ OnlyCall(r).up.kind = "ok"
                    /\ OnlyCall(r).up.json.t = "items")
                   => res[r].body.transactions = List(OnlyCall(r).up.json.items)

\* Solana with both keys configured: the two signatures the RPC listed are
\* the response
C10_Witness ==
  \E r \in Reqs :
    /\ TransactionsAnswered(r) /\ req[r].network = "solana"
    /\ env.MORALIS_API_KEY /\ env.COVALENT_API_KEY
    /\ Len(calls[r]) = 1
    /\ res[r].body.transactions.t = "list"
    /\ Len(res[r].body.transactions.items) = 2

\* handleRequest has returned, or the promise it returned has rejected
Terminated(r) == pc[r] \in {"done", "rejected"}

\* C11: every fault raised while handleRequest processes a request ends in
\* a 500 response with an error body, and every request the handler is
\* through with has been answered.
C11_FaultAnswered500 ==
  \A r \in Reqs :
    /\ pc[r] = "rejected" => IsErrorResponse(r, 500)
    /\ Terminated(r) => res[r] # NoRes

\* the upstream call ended in one of the failure kinds: the fetch rejected,
\* the status was not a success, the body was no JSON, or the reply lacks
\* the expected result field or holds a malformed one
UpstreamFailed(c) ==
  \/ c.up \in Failures
  \/ c.up.kind = "ok" /\ c.up.json.t \in {"absent", "notarray", "garbage", "string"}

\* C12: every adapter call whose upstream call failed, in any of the kinds
\* of failure, returned null: no exception, no collection, no number.
C12_FailureIsNull ==
  \A r \in Reqs :
    \A i \in DOMAIN calls[r] :
      UpstreamFailed(calls[r][i]) => IsNull(calls[r][i].ret)

\* the adapter of the probe has been applied
Applied == probe.ret # Pending

\* C13: Provider-B's balance and transaction operations return null for the
\* Solana chain identifier whatever the upstream does, and either
\* provider's adapters return null and fetch nothing when the apiKey is
\* absent.
C13_CovalentNullForSolana ==
  Applied =>
    /\ (probe.fn \in {"getCovalentBalances", "getCovalentTransactions"}
          /\ CHAIN_INFO[probe.network].chainId = "solana") => IsNull(probe.ret)
    /\ ~probe.apiKey => IsNull(probe.ret) /\ ~probe.fetched

\* the upstream source behind an adapter: the chain's RPC endpoint, the
\* token/transaction provider, or the price API
SourceOf(fn) ==
  CASE fn \in NativeAdapters \cup {"getSolanaSignatures"} -> "rpc"
    [] fn \in BalanceProviders \cup TxProviders -> "provider"
    [] fn = "getNativePriceUsd" -> "price"

\* C14: within one request no two adapter calls go to the same upstream
\* source, whatever the calls returned: no source is asked twice, and no
\* second provider is asked after the first.
C14_NoRetries ==
  \A r \in Reqs :
    \A i, j \in DOMAIN calls[r] :
      i # j => SourceOf(calls[r][i].fn) # SourceOf(calls[r][j].fn)

\* a balances request answered after all three of its sources failed, each
\* asked once although the other provider's key is configured as well
C14_Witness ==
  \E r \in Reqs :
    /\ BalancesAnswered(r) /\ req[r].network = "ethereum"
    /\ env.MORALIS_API_KEY /\ env.COVALENT_API_KEY
    /\ Len(calls[r]) = 3
    /\ \A i \in 1..3 : calls[r][i].up = TransportError /\ IsNull(calls[r][i].ret)

\* the item of the provider payload behind the native entry the provider
\* surfaced for request r: the last native item the adapter did not skip
SurfacedItem(r) ==
  LET items == ProviderItems(r)
      natives == {i \in DOMAIN items : items[i].native_token /\ ~MoralisSkips(items[i])}
  IN items[CHOOSE i \in natives : \A j \in natives : j <= i]

\* step 4 of a balances request gave no USD value: the RPC balance is absent
\* or no number, or the price is unavailable
NoUsdFromPrice(r) ==
  ~IsNum(Returned(r, NativeAdapters)) \/ IsNull(Returned(r, {"getNativePriceUsd"}))

\* C16: when step 4 gave no USD value and the provider surfaced a native
\* entry, nativeValueUsd is the USD value that entry carries, and null when
\* the entry carries none.
C16_ProviderUsdFallback ==
  \A r \in Reqs :
    (BalancesAnswered(r) /\ ~IsNull(SurfacedNative(r)) /\ NoUsdFromPrice(r)) =>
      res[r].body.nativeValueUsd =
        (IF IsNum(SurfacedItem(r).usd_value) THEN SurfacedItem(r).usd_value ELSE Null)

\* C17: when the RPC adapter returned a number, 0 included, nativeBalance
\* is that number and, when the price lookup gave a number as well,
\* nativeValueUsd is their product, whatever native entry the provider
\* surfaced.
C17_RpcFirst ==
  \A r \in Reqs :
    LET b == Returned(r, NativeAdapters)
        p == Returned(r, {"getNativePriceUsd"})
    IN (BalancesAnswered(r) /\ IsNum(b)) =>
         /\ res[r].body.nativeBalance = b
         /\ IsNum(p) => res[r].body.nativeValueUsd = Num(b.v * p.v)

\* the RPC balance is 0 and the price 2000 while the provider surfaced a
\* native entry of 0.5 worth 900 USD: the response says 0 and 0 USD
C17_Witness ==
  \E r \in Reqs :
    /\ BalancesAnswered(r)
    /\ Returned(r, NativeAdapters) = Num(0)
    /\ Returned(r, {"getNativePriceUsd"}) = Num(2000)
    /\ ~IsNull(SurfacedNative(r))
    /\ SurfacedNative(r).balance = Num(5) /\ SurfacedNative(r).usd = Num(9000)
    /\ res[r].body.nativeBalance = Num(0)
    /\ res[r].body.nativeValueUsd = Num(0)

\* the response a 200 answer of request r must carry, computed from r's own
\* parameters and from what r's own adapter calls returned
OwnBody(r) ==
  IF req[r].pathname = "/api/balances"
  THEN BalancesBody(req[r].network, req[r].address, Returned(r, NativeAdapters),
                    Returned(r, BalanceProviders), SurfacedNative(r),
                    Returned(r, {"getNativePriceUsd"}))
  ELSE TransactionsBody(req[r].network, req[r].address,
                        Returned(r, TxProviders \cup {"getSolanaSignatures"}))

\* what the handler of request r holds: its request, locals, response, calls
Held(r) == <<req[r], nativeBalance[r], tokenData[r], moralisNative[r], res[r], calls[r]>>

\* a step leaves the key configuration alone and touches only what the one
\* request that moved holds
OwnStep ==
  /\ env' = env
  /\ \A r \in Reqs : pc'[r] = pc[r] => Held(r)' = Held(r)

\* every 200 answer is the function OwnBody of the request's own data
OwnResponse ==
  \A r \in Reqs :
    (BalancesAnswered(r) \/ TransactionsAnswered(r)) => res[r].body = OwnBody(r)

\* C15: with several requests in flight and their awaits completing in any
\* order, each 200 response is a function of the request's own network and
\* address, of the key configuration and of the results of its own upstream
\* calls, and no step of one request changes what another request holds or
\* the key configuration.
C15_RequestIsolation == []OwnResponse /\ [][OwnStep]_vars

\* two balances requests for the same network and address: one is answered
\* with the balance its RPC call returned while the other, whose RPC call was
\* refused, waits for its price
C15_Witness ==
  \E r, q \in Reqs :
    /\ r # q /\ req[r] = req[q]
    /\ BalancesAnswered(r) /\ res[r].body.nativeBalance = Num(5)
    /\ BalancesRequest(q) /\ pc[q] = "price"
    /\ calls[q][1].up = BadStatus /\ IsNull(nativeBalance[q])
====
